---- MODULE Spec2Model ----
(***************************************************************************)
(* edoren::Promise (include/edoren/Promise.hpp).                           *)
(*                                                                         *)
(* Client threads call resolve/reject (the executor's callables), then,    *)
(* failed, finally and wait on handles that share SharedState cells.  Each *)
(* thread has a call stack of frames; one action is one step of the frame  *)
(* on top of a thread's stack, at the granularity of one access to shared  *)
(* memory, so that the unlocked reads of m_status in then/failed/finally/  *)
(* wait interleave with a settlement running under m_fulfilledMutex.       *)
(***************************************************************************)
EXTENDS Integers, Sequences, FiniteSets, TLC

\* ------------------------------------------------------------------ bounds
\* MaxHandlers: then/failed/finally calls made by the clients.
\* MaxSettle: resolve/reject calls made through the executor's callables.
\* MaxWait: wait() calls made by the clients.
MaxHandlers == 2
MaxSettle == 2
MaxWait == 1
MaxNew == 1

Threads == {"t1", "t2"}
NoThread == "none"

\* An empty handle (m_shared == nullptr), and the cell made by Promise(executor).
Null == 0
Root == 1
\* A then call makes at most three cells: newShared (line 218), the promise its
\* handler returns (line 220), and the cell made by the then applied to that
\* promise (line 221).  A constructor call makes one.
MaxCells == 3 * MaxHandlers + 1 + MaxNew
Cells == 1..MaxCells
Handlers == 1..MaxHandlers

\* The k-th resolve/reject call passes the k-th value / error: the payload is
\* opaque to the code, so calls are told apart by passing distinct payloads.
Values == <<"v1", "v2", "v3", "v4">>
Errors == <<"e1", "e2", "e3", "e4">>
\* What the promise returned by handler h is resolved / rejected with when the
\* handler makes it with PromiseRetType::Resolve / PromiseRetType::Reject.
Returned == <<"r1", "r2", "r3", "r4">>
Thrown == <<"x1", "x2", "x3", "x4">>
\* The promise a promise-returning handler hands back: made by Resolve, made
\* by Reject, or made from an executor that kept its two callables for later.
Results == {"Resolve", "Reject", "executor"}
\* make_shared<SharedState>() value-initializes m_value and m_error.
DefaultValue == ""
NonInitialized == "Non-initialized promise"
Moved == "Promise has been moved"

ONGOING == "ONGOING"
RESOLVED == "RESOLVED"
REJECTED == "REJECTED"

VARIABLES
    status,        \* m_status (line 116) of each cell
    value,         \* m_value (line 117)
    error,         \* m_error (line 118)
    resolveCbs,    \* m_resolveCallbacks (line 124)
    rejectCbs,     \* m_rejectCallbacks (line 125)
    finallyCbs,    \* m_finallyCallbacks (line 126)
    mutex,         \* the thread holding m_fulfilledMutex (line 119)
    sigMutex,      \* the thread holding m_signalMutex (line 122)
    waiting,       \* the threads blocked inside m_signaler.wait (lines 111, 121)
    stack,         \* the call stack of each thread
    nextCell,      \* the next cell std::make_shared<SharedState>() hands out
    nextH,         \* the next user handler passed to then/failed/finally
    nSettle,       \* resolve/reject calls made by the clients so far
    nWait,         \* wait calls made by the clients so far
    handles,       \* the handles (m_shared, line 287) the clients hold
    settleable,    \* the cells whose resolveFn / rejectFn (lines 134-135) the clients hold
    aborted,       \* the process died in a racing container access
    reg,           \* history: what each user handler was passed to, on which handle
    fired,         \* history: invocations of callbacks and user handlers, in order
    appended,      \* history: callbacks pushed to each list, in order
    won,           \* history: the resolve/reject call that moved each cell out of ONGOING
    waits          \* history: what each returned wait() call saw

cellVars == <<status, value, error, resolveCbs, rejectCbs, finallyCbs>>
syncVars == <<mutex, sigMutex, waiting>>
ctlVars == <<nextCell, nextH, nSettle, nWait, handles, settleable, aborted>>
histVars == <<reg, fired, appended, won, waits>>
vars == <<cellVars, syncVars, ctlVars, histVars, stack>>

\* ------------------------------------------------------------------ frames
\* A frame is one activation of a member function.  op names the function,
\* pc the statement it is at, cell the SharedState it works on (Null for an
\* empty handle), arg the value or error passed in, h the user handler (0 for
\* the two lambdas of lines 221-226, which capture the cell into), prom whether
\* the handler returns a promise, idx/n the position and the cached end() of a
\* range-for, eff whether a resolve/reject passed its status test, ret the
\* handle a then will return.
Frame(op, pc, cell, arg, h) ==
    [op |-> op, pc |-> pc, cell |-> cell, arg |-> arg, h |-> h,
     into |-> Null, prom |-> FALSE,
     idx |-> 0, n |-> 0, eff |-> FALSE, ret |-> Null]

Top(t) == stack[t][Len(stack[t])]
At(t, ops, pc) ==
    /\ ~aborted
    /\ stack[t] # <<>>
    /\ Top(t).op \in ops
    /\ Top(t).pc = pc
Idle(t) == ~aborted /\ stack[t] = <<>>
Enter(t, f) == [stack EXCEPT ![t] = <<f>>]
SetTop(t, f) == [stack EXCEPT ![t] = [@ EXCEPT ![Len(@)] = f]]
Push(t, f, g) == [stack EXCEPT ![t] = Append([@ EXCEPT ![Len(@)] = f], g)]
Push2(t, f, g, k) == [stack EXCEPT ![t] = Append(Append([@ EXCEPT ![Len(@)] = f], g), k)]
Pop(t) == [stack EXCEPT ![t] = SubSeq(@, 1, Len(@) - 1)]

SettleOps == {"resolve", "reject"}

\* Callbacks stored in the three vectors: h is the user handler a callback
\* wraps (0 if none), into the cell captured by the lambdas of lines 221-226,
\* nc the newShared captured by the callbacks then stores.
ThenVoidCb(f, nc) == [k |-> "ThenVoid", h |-> f, into |-> Null, nc |-> nc]     \* lines 207-210
FwdRejectCb(nc) == [k |-> "FwdReject", h |-> 0, into |-> Null, nc |-> nc]      \* lines 211-213
ThenPromiseCb(f, nc) == [k |-> "ThenPromise", h |-> f, into |-> Null, nc |-> nc] \* lines 220-228
\* [newShared](auto& value) { newShared->resolve(value); } as then stores it
InnerThenCb(into, nc) == [k |-> "ThenVoid", h |-> 0, into |-> into, nc |-> nc] \* lines 221-223, 207-210
\* [newShared](auto& error) { newShared->reject(error); } as failed stores it
InnerFailedCb(into) == [k |-> "Failed", h |-> 0, into |-> into, nc |-> Null]   \* lines 224-226, 255
FailedCb(f) == [k |-> "Failed", h |-> f, into |-> Null, nc |-> Null]           \* line 255
FinallyCb(f) == [k |-> "Finally", h |-> f, into |-> Null, nc |-> Null]         \* line 272
\* The callback a then frame stores in m_resolveCallbacks.
ThenCbRejects(f, nc) == FwdRejectCb(nc)
ThenCb(f, nc) ==
    IF f.prom THEN ThenPromiseCb(f.h, nc)
    ELSE IF f.into # Null THEN InnerThenCb(f.into, nc)
    ELSE ThenVoidCb(f.h, nc)
\* The callback a failed frame stores in m_rejectCallbacks.
FailedFrameCb(f) == IF f.into # Null THEN InnerFailedCb(f.into) ELSE FailedCb(f.h)

NoLists == [res |-> <<>>, rej |-> <<>>, fin |-> <<>>]
NoReg == [kind |-> "none", on |-> Null, ret |-> -1, same |-> TRUE, seen |-> "none", q |-> Null]
NoWon == [op |-> "none", arg |-> DefaultValue]

\* std::vector::push_back and clear.
PushFront(list, cb) == <<cb>> \o list
PushBack(list, cb) == Append(list, cb)
Cleared == <<>>

\* The test of resolve (line 44) and reject (line 63).
AlwaysSettle(c) == TRUE
CanSettle(c) == status[c] = ONGOING

\* std::mutex::lock can be taken.
NoMutex(c) == TRUE
MutexFree(c) == mutex[c] = NoThread

\* A resolve/reject of cell c passed its test and has not yet left its two loops.
Draining(c) ==
    \E t \in Threads : \E i \in 1..Len(stack[t]) :
        /\ stack[t][i].op \in SettleOps
        /\ stack[t][i].cell = c
        /\ stack[t][i].pc \in {"s_store", "s_cbs", "s_fin"}

\* how is "queued" for a callback run by resolve/reject out of a vector of
\* cell c and "inline" for a handler run by then/failed/finally themselves.
Fire(cb, arg, how, c) == Append(fired, [cb |-> cb, arg |-> arg, how |-> how, cell |-> c])

\* PromiseRetType::Reject(e) (lines 153-158): a new cell o, rejected with e
\* before any other thread can reach it.
MakeRejected(o, e) ==
    /\ status' = [status EXCEPT ![o] = REJECTED]
    /\ error' = [error EXCEPT ![o] = e]
    /\ won' = [won EXCEPT ![o] = [op |-> "reject", arg |-> e]]
    /\ nextCell' = o + 1

\* The promise handler h returns, in a new cell o: Resolve(v) (lines 146-151),
\* Reject(e) (lines 153-158) or Promise(executor) (lines 131-140) with the
\* callables handed to the clients.
MakeReturned(o, h, r) ==
    /\ status' = [status EXCEPT ![o] =
                      CASE r = "Resolve" -> RESOLVED
                        [] r = "Reject" -> REJECTED
                        [] OTHER -> ONGOING]
    /\ value' = [value EXCEPT ![o] = IF r = "Resolve" THEN Returned[h] ELSE @]
    /\ error' = [error EXCEPT ![o] = IF r = "Reject" THEN Thrown[h] ELSE @]
    /\ won' = [won EXCEPT ![o] =
                   CASE r = "Resolve" -> [op |-> "resolve", arg |-> Returned[h]]
                     [] r = "Reject" -> [op |-> "reject", arg |-> Thrown[h]]
                     [] OTHER -> @]
    /\ settleable' = settleable \cup (IF r = "executor" THEN {o} ELSE {})
    /\ reg' = [reg EXCEPT ![h].q = o]
    /\ nextCell' = o + 1

\* What is recorded of a call handle.then/failed/finally(h): the member
\* function, the handle, the handle returned (-1 until then returns), whether
\* the handler's promise type is this one, the status the call's first test
\* read, and the cell of the promise the handler returned (q).
Reg(kind, hd, ret) ==
    [kind |-> kind, on |-> hd, ret |-> ret, same |-> TRUE,
     seen |-> IF hd = Null THEN "none" ELSE status[hd], q |-> Null]

Init ==
    /\ status = [c \in Cells |-> ONGOING]
    /\ value = [c \in Cells |-> DefaultValue]
    /\ error = [c \in Cells |-> DefaultValue]
    /\ resolveCbs = [c \in Cells |-> <<>>]
    /\ rejectCbs = [c \in Cells |-> <<>>]
    /\ finallyCbs = [c \in Cells |-> <<>>]
    /\ mutex = [c \in Cells |-> NoThread]
    /\ sigMutex = [c \in Cells |-> NoThread]
    /\ waiting = [c \in Cells |-> {}]
    /\ stack = [t \in Threads |-> <<>>]
    /\ nextCell = Root + 1
    /\ nextH = 1
    /\ nSettle = 0
    /\ nWait = 0
    /\ handles = {Null, Root}
    /\ settleable = {Root}
    /\ aborted = FALSE
    /\ reg = [h \in Handlers |-> NoReg]
    /\ fired = <<>>
    /\ appended = [c \in Cells |-> NoLists]
    /\ won = [c \in Cells |-> NoWon]
    /\ waits = {}

\* ------------------------------------------------------------------ SharedState::resolve / reject
\* A client calls the executor's resolveFn / rejectFn (lines 134-135):
\* shared->resolve(value) starts by taking m_fulfilledMutex (line 43 / 62).
CallResolve(t) ==
    /\ Idle(t)
    /\ nSettle < MaxSettle
    /\ \E c \in settleable :
        /\ MutexFree(c)
        /\ mutex' = [mutex EXCEPT ![c] = t]
        /\ stack' = Enter(t, Frame("resolve", "s_chk", c, Values[nSettle + 1], 0))
    /\ nSettle' = nSettle + 1
    /\ UNCHANGED <<cellVars, sigMutex, waiting, histVars, nextCell, nextH, nWait, handles,
                   settleable, aborted>>

CallReject(t) ==
    /\ Idle(t)
    /\ nSettle < MaxSettle
    /\ \E c \in settleable :
        /\ MutexFree(c)
        /\ mutex' = [mutex EXCEPT ![c] = t]
        /\ stack' = Enter(t, Frame("reject", "s_chk", c, Errors[nSettle + 1], 0))
    /\ nSettle' = nSettle + 1
    /\ UNCHANGED <<cellVars, sigMutex, waiting, histVars, nextCell, nextH, nWait, handles,
                   settleable, aborted>>

\* std::lock_guard<std::mutex> lock(m_fulfilledMutex), in a resolve/reject
\* called by a callback (lines 209, 212).
SettleLock(t) ==
    /\ At(t, SettleOps, "s_lock")
    /\ MutexFree(Top(t).cell)
    /\ mutex' = [mutex EXCEPT ![Top(t).cell] = t]
    /\ stack' = SetTop(t, [Top(t) EXCEPT !.pc = "s_chk"])
    /\ UNCHANGED <<cellVars, sigMutex, waiting, ctlVars, histVars>>

\* if (m_status == ONGOING) { m_status = RESOLVED / REJECTED; ... } else { }
SettleCheck(t) ==
    /\ At(t, SettleOps, "s_chk")
    /\ LET f == Top(t)
           c == f.cell
       IN IF CanSettle(c)
          THEN /\ status' = [status EXCEPT ![c] =
                                IF f.op = "resolve" THEN RESOLVED ELSE REJECTED]
               /\ won' = [won EXCEPT ![c] =
                             IF @.op = "none" THEN [op |-> f.op, arg |-> f.arg] ELSE @]
               /\ stack' = SetTop(t, [f EXCEPT !.pc = "s_store", !.eff = TRUE])
          ELSE /\ stack' = SetTop(t, [f EXCEPT !.pc = "s_unlock"])
               /\ UNCHANGED <<status, won>>
    /\ UNCHANGED <<value, error, resolveCbs, rejectCbs, finallyCbs, syncVars, ctlVars,
                   reg, fired, appended, waits>>

\* The end() a range-for takes of a vector, as a position.
EndAtBegin(list) == 0
End(list) == Len(list)

\* m_value = value / m_error = error, and the range-for takes begin() and end().
SettleStore(t) ==
    /\ At(t, SettleOps, "s_store")
    /\ LET f == Top(t)
           c == f.cell
       IN /\ IF f.op = "resolve"
             THEN value' = [value EXCEPT ![c] = f.arg] /\ UNCHANGED error
             ELSE error' = [error EXCEPT ![c] = f.arg] /\ UNCHANGED value
          /\ stack' = SetTop(t, [f EXCEPT !.pc = "s_cbs", !.idx = 1,
                                  !.n = IF f.op = "resolve" THEN End(resolveCbs[c])
                                                           ELSE End(rejectCbs[c])])
    /\ UNCHANGED <<status, resolveCbs, rejectCbs, finallyCbs, syncVars, ctlVars, histVars>>

\* The cell a callback stored by then on cell c settles: the newShared its
\* lambda captured (lines 207, 211), never the cell it is stored in.
CapturedThis(cb, c) == c
Captured(cb, c) == cb.nc

\* The order in which a range-for visits a vector.
SameIndex(i) == i
NextIndex(i) == i + 1

\* for (auto& callback : m_resolveCallbacks) callback(value)      (lines 47-49)
\* for (auto& callback : m_rejectCallbacks) callback(m_error)     (lines 66-68)
\* The callbacks are those then and failed stored: a ThenVoid runs func(value)
\* and then newShared->resolve(value), a FwdReject runs newShared->reject(error),
\* a ThenPromise runs func(value).then(...).failed(...), a Failed runs func(error).
\* func is a user handler, or one of the lambdas of lines 221-226, which call
\* resolve / reject on the cell they captured.
SettleRunCallbacks(t) ==
    /\ At(t, SettleOps, "s_cbs")
    /\ LET f == Top(t)
           c == f.cell
           list == IF f.op = "resolve" THEN resolveCbs[c] ELSE rejectCbs[c]
           a == IF f.op = "resolve" THEN f.arg ELSE error[c]
       IN IF f.idx <= f.n
          THEN LET cb == list[f.idx]
                   g == [f EXCEPT !.idx = NextIndex(f.idx)]
               IN /\ fired' = Fire(cb, a, "queued", c)
                  /\ CASE cb.k = "ThenPromise" ->
                            \E r \in Results :
                                /\ MakeReturned(nextCell, cb.h, r)
                                /\ stack' = Push(t, g, [Frame("chain", "p_then", nextCell, a, 0)
                                                           EXCEPT !.into = cb.nc])
                       [] cb.k = "ThenVoid" /\ cb.into # Null ->
                            /\ stack' = Push2(t, g, Frame("callback", "c_fwd", cb.nc, a, 0),
                                              Frame("resolve", "s_lock", cb.into, a, 0))
                            /\ UNCHANGED <<status, value, error, won, settleable, nextCell, reg>>
                       [] cb.k = "ThenVoid" /\ cb.into = Null ->
                            /\ stack' = Push(t, g, Frame("resolve", "s_lock", Captured(cb, c), a, 0))
                            /\ UNCHANGED <<status, value, error, won, settleable, nextCell, reg>>
                       [] cb.k = "FwdReject" ->
                            /\ stack' = Push(t, g, Frame("reject", "s_lock", Captured(cb, c), a, 0))
                            /\ UNCHANGED <<status, value, error, won, settleable, nextCell, reg>>
                       [] cb.k = "Failed" /\ cb.into # Null ->
                            /\ stack' = Push(t, g, Frame("reject", "s_lock", cb.into, a, 0))
                            /\ UNCHANGED <<status, value, error, won, settleable, nextCell, reg>>
                       [] OTHER ->
                            /\ stack' = SetTop(t, g)
                            /\ UNCHANGED <<status, value, error, won, settleable, nextCell, reg>>
          ELSE /\ stack' = SetTop(t, [f EXCEPT !.pc = "s_fin", !.idx = 1,
                                               !.n = End(finallyCbs[c])])
               /\ UNCHANGED <<fired, status, value, error, won, settleable, nextCell, reg>>
    /\ UNCHANGED <<resolveCbs, rejectCbs, finallyCbs, syncVars, nextH, nSettle, nWait,
                   handles, aborted, appended, waits>>

\* for (auto& callback : m_finallyCallbacks) callback()           (lines 50-52, 69-71)
SettleRunFinally(t) ==
    /\ At(t, SettleOps, "s_fin")
    /\ LET f == Top(t)
           c == f.cell
       IN IF f.idx <= f.n
          THEN /\ fired' = Fire(finallyCbs[c][f.idx], DefaultValue, "queued", c)
               /\ stack' = SetTop(t, [f EXCEPT !.idx = NextIndex(f.idx)])
          ELSE /\ stack' = SetTop(t, [f EXCEPT !.pc = "s_clear"])
               /\ UNCHANGED fired
    /\ UNCHANGED <<cellVars, syncVars, ctlVars, reg, appended, won, waits>>

\* m_resolveCallbacks.clear() / m_rejectCallbacks.clear(); m_finallyCallbacks.clear()
SettleClear(t) ==
    /\ At(t, SettleOps, "s_clear")
    /\ LET f == Top(t)
           c == f.cell
       IN /\ IF f.op = "resolve"
             THEN resolveCbs' = [resolveCbs EXCEPT ![c] = Cleared] /\ UNCHANGED rejectCbs
             ELSE rejectCbs' = [rejectCbs EXCEPT ![c] = Cleared] /\ UNCHANGED resolveCbs
          /\ finallyCbs' = [finallyCbs EXCEPT ![c] = Cleared]
          /\ stack' = SetTop(t, [f EXCEPT !.pc = "s_notify"])
    /\ UNCHANGED <<status, value, error, syncVars, ctlVars, histVars>>

\* m_signaler.notify_all()
SettleNotify(t) ==
    /\ At(t, SettleOps, "s_notify")
    /\ waiting' = [waiting EXCEPT ![Top(t).cell] = {}]
    /\ stack' = SetTop(t, [Top(t) EXCEPT !.pc = "s_unlock"])
    /\ UNCHANGED <<cellVars, mutex, sigMutex, ctlVars, histVars>>

\* the lock_guard is destroyed and the call returns
SettleUnlock(t) ==
    /\ At(t, SettleOps, "s_unlock")
    /\ mutex' = [mutex EXCEPT ![Top(t).cell] = NoThread]
    /\ stack' = Pop(t)
    /\ UNCHANGED <<cellVars, sigMutex, waiting, ctlVars, histVars>>

\* ------------------------------------------------------------------ Promise::then
\* The branch then takes once it holds the lock (lines 195, 202, 233).
ThenBranchNeverInline(st) ==
    CASE st = REJECTED -> "uncovered"
      [] OTHER -> "queue"
ThenBranch(st) ==
    CASE st = RESOLVED -> "inline"
      [] st = ONGOING -> "queue"
      [] OTHER -> "uncovered"

\* The test of line 173, no lock held.
EarlyReturnIfEmpty(hd) == hd = Null
EarlyReturn(hd) == hd = Null \/ status[hd] = REJECTED

\* A client calls handle.then(f), f returning nothing.  Line 173, no lock held:
\* if (!m_shared || m_shared->getStatus() == REJECTED) return *this;
CallThen(t) ==
    /\ Idle(t)
    /\ nextH <= MaxHandlers
    /\ \E hd \in handles :
        IF EarlyReturn(hd)
        THEN /\ reg' = [reg EXCEPT ![nextH] = Reg("then", hd, hd)]
             /\ UNCHANGED stack
        ELSE /\ reg' = [reg EXCEPT ![nextH] = Reg("then", hd, -1)]
             /\ stack' = Enter(t, Frame("then", "t_lock", hd, DefaultValue, nextH))
    /\ nextH' = nextH + 1
    /\ UNCHANGED <<cellVars, syncVars, nextCell, nSettle, nWait, handles, settleable, aborted,
                   fired, appended, won, waits>>

\* A client calls handle.then(f), f returning a promise.  Line 173, no lock
\* held; on an empty or REJECTED handle (lines 176-189): return *this if f's
\* promise type is this one, and otherwise PromiseRetType::Reject of
\* "Non-initialized promise" or of m_shared->getError(), read next.
CallThenPromise(t) ==
    /\ Idle(t)
    /\ nextH <= MaxHandlers
    /\ \E hd \in handles :
        LET r == Reg("thenPromise", hd, -1)
        IN IF EarlyReturn(hd)
           THEN \/ /\ reg' = [reg EXCEPT ![nextH] = [r EXCEPT !.ret = hd]]
                   /\ UNCHANGED <<stack, status, error, won, nextCell, handles>>
                \/ /\ hd = Null
                   /\ MakeRejected(nextCell, NonInitialized)
                   /\ reg' = [reg EXCEPT ![nextH] = [r EXCEPT !.ret = nextCell, !.same = FALSE]]
                   /\ handles' = handles \cup {nextCell}
                   /\ UNCHANGED stack
                \/ /\ hd # Null
                   /\ reg' = [reg EXCEPT ![nextH] = [r EXCEPT !.same = FALSE]]
                   /\ stack' = Enter(t, [Frame("then", "t_err", hd, DefaultValue, nextH)
                                           EXCEPT !.prom = TRUE])
                   /\ UNCHANGED <<status, error, won, nextCell, handles>>
           ELSE /\ reg' = [reg EXCEPT ![nextH] = r]
                /\ stack' = Enter(t, [Frame("then", "t_lock", hd, DefaultValue, nextH)
                                        EXCEPT !.prom = TRUE])
                /\ UNCHANGED <<status, error, won, nextCell, handles>>
    /\ nextH' = nextH + 1
    /\ UNCHANGED <<value, resolveCbs, rejectCbs, finallyCbs, syncVars, nSettle, nWait,
                   settleable, aborted, fired, appended, waits>>

\* return PromiseRetType::Reject(m_shared->getError())   (line 188, no lock held)
ThenReadError(t) ==
    /\ At(t, {"then"}, "t_err")
    /\ LET f == Top(t)
       IN /\ MakeRejected(nextCell, error[f.cell])
          /\ reg' = [reg EXCEPT ![f.h].ret = nextCell]
          /\ handles' = handles \cup {nextCell}
          /\ stack' = Pop(t)
    /\ UNCHANGED <<value, resolveCbs, rejectCbs, finallyCbs, syncVars, nextH, nSettle, nWait,
                   settleable, aborted, fired, appended, waits>>

\* std::lock_guard<std::mutex> lock(m_shared->getMutex())
ThenLock(t) ==
    /\ At(t, {"then"}, "t_lock")
    /\ MutexFree(Top(t).cell)
    /\ mutex' = [mutex EXCEPT ![Top(t).cell] = t]
    /\ stack' = SetTop(t, [Top(t) EXCEPT !.pc = "t_body"])
    /\ UNCHANGED <<cellVars, sigMutex, waiting, ctlVars, histVars>>

\* The three ways out of then under the lock: func(getValue()) inline
\* (lines 195-201), a new cell wired to the parent by two callbacks
\* (lines 202-231), or the fall-through PromiseRetType::Reject (lines 233-238).
\* Inline, a handler that returns nothing leaves *this to return, a handler
\* that returns a promise leaves that promise, and the lambda of lines 221-223
\* calls resolve on the cell it captured.
ThenBody(t) ==
    /\ At(t, {"then"}, "t_body")
    /\ LET f == Top(t)
           c == f.cell
           br == ThenBranch(status[c])
           nc == nextCell
           pend == status[c] = ONGOING
       IN CASE br = "inline" ->
                 /\ fired' = Fire(ThenCb(f, Null), value[c], "inline", c)
                 /\ IF f.prom
                    THEN \E r \in Results :
                            /\ MakeReturned(nc, f.h, r)
                            /\ stack' = SetTop(t, [f EXCEPT !.pc = "t_unlock", !.ret = nc])
                    ELSE /\ stack' =
                              IF f.into # Null
                              THEN Push(t, [f EXCEPT !.pc = "t_unlock", !.ret = c],
                                        Frame("resolve", "s_lock", f.into, value[c], 0))
                              ELSE SetTop(t, [f EXCEPT !.pc = "t_unlock", !.ret = c])
                         /\ UNCHANGED <<status, value, error, won, settleable, nextCell, reg>>
                 /\ UNCHANGED <<resolveCbs, rejectCbs, finallyCbs, appended>>
            [] br = "queue" ->
                 /\ resolveCbs' = [resolveCbs EXCEPT ![c] = PushBack(@, ThenCb(f, nc))]
                 /\ rejectCbs' = [rejectCbs EXCEPT ![c] = PushBack(@, FwdRejectCb(nc))]
                 /\ appended' = [appended EXCEPT
                        ![c].res = Append(@, [cb |-> ThenCb(f, nc), pending |-> pend]),
                        ![c].rej = Append(@, [cb |-> FwdRejectCb(nc), pending |-> pend])]
                 /\ nextCell' = nc + 1
                 /\ stack' = SetTop(t, [f EXCEPT !.pc = "t_unlock", !.ret = nc])
                 /\ UNCHANGED <<status, value, error, finallyCbs, fired, won, settleable, reg>>
            [] OTHER ->
                 /\ MakeRejected(nc, NonInitialized)
                 /\ stack' = SetTop(t, [f EXCEPT !.pc = "t_unlock", !.ret = nc])
                 /\ UNCHANGED <<value, resolveCbs, rejectCbs, finallyCbs, fired, appended,
                                settleable, reg>>
    /\ UNCHANGED <<syncVars, nextH, nSettle, nWait, handles, aborted, waits>>

\* return: the lock_guard is destroyed and the caller has the returned handle;
\* the callback of lines 220-228 drops the handle its then returns (line 221).
ThenUnlock(t) ==
    /\ At(t, {"then"}, "t_unlock")
    /\ LET f == Top(t)
       IN /\ mutex' = [mutex EXCEPT ![f.cell] = NoThread]
          /\ IF f.h # 0
             THEN /\ reg' = [reg EXCEPT ![f.h].ret = f.ret]
                  /\ handles' = handles \cup {f.ret}
                  /\ stack' = Pop(t)
             ELSE /\ stack' = Pop(t)
                  /\ UNCHANGED <<reg, handles>>
    /\ UNCHANGED <<cellVars, sigMutex, waiting, nextCell, nextH, nSettle, nWait, settleable,
                   aborted, fired, appended, won, waits>>

\* The callback of lines 220-228, after PromiseRetType other = func(value):
\* other.then([newShared](auto& value) { newShared->resolve(value); }), whose
\* line 173 returns at once for a REJECTED other.
ChainThen(t) ==
    /\ At(t, {"chain"}, "p_then")
    /\ LET f == Top(t)
       IN IF EarlyReturn(f.cell)
          THEN stack' = SetTop(t, [f EXCEPT !.pc = "p_failed"])
          ELSE stack' = Push(t, [f EXCEPT !.pc = "p_failed"],
                             [Frame("then", "t_lock", f.cell, DefaultValue, 0)
                                EXCEPT !.into = f.into])
    /\ UNCHANGED <<cellVars, syncVars, ctlVars, histVars>>

\* other.failed([newShared](auto& error) { newShared->reject(error); }): the
\* two tests of failed (lines 243, 252), other being non-empty.
ChainFailed(t) ==
    /\ At(t, {"chain"}, "p_failed")
    /\ LET f == Top(t)
       IN stack' = SetTop(t, [Frame("failed",
                                    IF status[f.cell] = REJECTED THEN "f_inl" ELSE "f_st2",
                                    f.cell, DefaultValue, 0)
                                EXCEPT !.into = f.into])
    /\ UNCHANGED <<cellVars, syncVars, ctlVars, histVars>>

\* The callback then stored for the lambda of lines 221-223 (lines 207-210):
\* func(value) has returned, newShared->resolve(value) is next.
CallbackForward(t) ==
    /\ At(t, {"callback"}, "c_fwd")
    /\ LET f == Top(t)
       IN stack' = SetTop(t, Frame("resolve", "s_lock", f.cell, f.arg, 0))
    /\ UNCHANGED <<cellVars, syncVars, ctlVars, histVars>>

\* ------------------------------------------------------------------ Promise::failed
\* failed on an empty handle: func(reason), reason "Promise has been moved"
\* (lines 243-249).
FailedOnEmptySkips(h) == fired
FailedOnEmpty(h) == Fire(FailedCb(h), Moved, "inline", Null)

\* A client calls handle.failed(h).  No lock is held anywhere in failed.
\* if (!m_shared) { func("Promise has been moved"); return *this; }
\* if (m_shared->getStatus() == REJECTED)
CallFailed(t) ==
    /\ Idle(t)
    /\ nextH <= MaxHandlers
    /\ \E hd \in handles :
        /\ reg' = [reg EXCEPT ![nextH] = Reg("failed", hd, hd)]
        /\ IF hd = Null
           THEN /\ fired' = FailedOnEmpty(nextH)
                /\ UNCHANGED stack
           ELSE /\ stack' = Enter(t, Frame("failed",
                                  IF status[hd] = REJECTED THEN "f_inl" ELSE "f_st2",
                                  hd, DefaultValue, nextH))
                /\ UNCHANGED fired
    /\ nextH' = nextH + 1
    /\ UNCHANGED <<cellVars, syncVars, nextCell, nSettle, nWait, handles, settleable,
                   aborted,
                   appended, won, waits>>

\* func(m_shared->getError()); the lambda of lines 224-226 calls reject on the
\* cell it captured.
FailedInline(t) ==
    /\ At(t, {"failed"}, "f_inl")
    /\ LET f == Top(t)
       IN /\ fired' = Fire(FailedFrameCb(f), error[f.cell], "inline", f.cell)
          /\ stack' = IF f.into # Null
                      THEN SetTop(t, Frame("reject", "s_lock", f.into, error[f.cell], 0))
                      ELSE Pop(t)
    /\ UNCHANGED <<cellVars, syncVars, ctlVars, reg, appended, won, waits>>

\* else if (m_shared->getStatus() == ONGOING): a second read of m_status
FailedTestOngoing(t) ==
    /\ At(t, {"failed"}, "f_st2")
    /\ LET f == Top(t)
       IN IF status[f.cell] = ONGOING
          THEN stack' = SetTop(t, [f EXCEPT !.pc = "f_app"])
          ELSE stack' = Pop(t)
    /\ UNCHANGED <<cellVars, syncVars, ctlVars, histVars>>

\* m_shared->appendRejectCallback([func](auto& error) { func(error); })
FailedAppend(t) ==
    /\ At(t, {"failed"}, "f_app")
    /\ LET f == Top(t)
           c == f.cell
       IN /\ rejectCbs' = [rejectCbs EXCEPT ![c] = PushBack(@, FailedFrameCb(f))]
          /\ appended' = [appended EXCEPT ![c].rej =
                             Append(@, [cb |-> FailedFrameCb(f), pending |-> status[c] = ONGOING])]
          /\ stack' = Pop(t)
    /\ UNCHANGED <<status, value, error, resolveCbs, finallyCbs, syncVars, ctlVars,
                   reg, fired, won, waits>>

\* ------------------------------------------------------------------ Promise::finally
\* A client calls handle.finally(g).  No lock is held anywhere in finally.
\* if (!m_shared) return *this;
\* if (m_shared->getStatus() != ONGOING)
CallFinally(t) ==
    /\ Idle(t)
    /\ nextH <= MaxHandlers
    /\ \E hd \in handles :
        /\ reg' = [reg EXCEPT ![nextH] = Reg("finally", hd, hd)]
        /\ IF hd = Null
           THEN UNCHANGED stack
           ELSE stack' = Enter(t, Frame("finally",
                               IF status[hd] # ONGOING THEN "y_inl" ELSE "y_app",
                               hd, DefaultValue, nextH))
    /\ nextH' = nextH + 1
    /\ UNCHANGED <<cellVars, syncVars, nextCell, nSettle, nWait, handles, settleable,
                   aborted,
                   fired, appended, won, waits>>

\* func()
FinallyInline(t) ==
    /\ At(t, {"finally"}, "y_inl")
    /\ LET f == Top(t)
       IN /\ fired' = Fire(FinallyCb(f.h), DefaultValue, "inline", f.cell)
          /\ stack' = Pop(t)
    /\ UNCHANGED <<cellVars, syncVars, ctlVars, reg, appended, won, waits>>

\* m_shared->appendFinallyCallback([func]() { func(); })
FinallyAppend(t) ==
    /\ At(t, {"finally"}, "y_app")
    /\ LET f == Top(t)
           c == f.cell
       IN /\ finallyCbs' = [finallyCbs EXCEPT ![c] = PushBack(@, FinallyCb(f.h))]
          /\ appended' = [appended EXCEPT ![c].fin =
                             Append(@, [cb |-> FinallyCb(f.h), pending |-> status[c] = ONGOING])]
          /\ stack' = Pop(t)
    /\ UNCHANGED <<status, value, error, resolveCbs, rejectCbs, syncVars, ctlVars,
                   reg, fired, won, waits>>

\* A push_back that runs while another thread's range-for walks the same
\* vector is a data race on the vector: besides the element landing behind
\* the cached end(), the build may reallocate under the iterator and die.
\* A run that dies is a run that stops: all actions are disabled afterwards.
Iterating(c, which) ==
    \E t \in Threads : \E i \in 1..Len(stack[t]) :
        LET g == stack[t][i]
        IN /\ g.op \in SettleOps
           /\ g.cell = c
           /\ \/ which = "rej" /\ g.op = "reject" /\ g.pc = "s_cbs"
              \/ which = "fin" /\ g.pc = "s_fin"

RacingAppendAborts(t) ==
    /\ \/ At(t, {"failed"}, "f_app") /\ Iterating(Top(t).cell, "rej")
       \/ At(t, {"finally"}, "y_app") /\ Iterating(Top(t).cell, "fin")
    /\ aborted' = TRUE
    /\ UNCHANGED <<cellVars, syncVars, nextCell, nextH, nSettle, nWait, handles, settleable,
                   histVars, stack>>

\* ------------------------------------------------------------------ Promise::wait / SharedState::wait
\* What a returning wait() saw: whether it found the cell ONGOING when it
\* started, and the cell's status and whether its callbacks were still being
\* run at the moment of the return.
WaitRecord(c, pending) ==
    [cell |-> c, pending |-> pending,
     st |-> IF c = Null THEN "none" ELSE status[c],
     draining |-> IF c = Null THEN FALSE ELSE Draining(c)]

\* A client calls handle.wait().  No m_fulfilledMutex is taken anywhere in wait.
\* if (m_shared) { if (m_status == ONGOING) { ... } }
CallWait(t) ==
    /\ Idle(t)
    /\ nWait < MaxWait
    /\ \E hd \in handles :
        IF hd # Null /\ status[hd] = ONGOING
        THEN /\ stack' = Enter(t, Frame("wait", "w_lock", hd, DefaultValue, 0))
             /\ UNCHANGED waits
        ELSE /\ waits' = waits \cup {WaitRecord(hd, FALSE)}
             /\ UNCHANGED stack
    /\ nWait' = nWait + 1
    /\ UNCHANGED <<cellVars, syncVars, nextCell, nextH, nSettle, handles, settleable, aborted,
                   reg, fired, appended, won>>

\* std::unique_lock<std::mutex> lock(m_signalMutex)
WaitLock(t) ==
    /\ At(t, {"wait"}, "w_lock")
    /\ sigMutex[Top(t).cell] = NoThread
    /\ sigMutex' = [sigMutex EXCEPT ![Top(t).cell] = t]
    /\ stack' = SetTop(t, [Top(t) EXCEPT !.pc = "w_wait"])
    /\ UNCHANGED <<cellVars, mutex, waiting, ctlVars, histVars>>

\* m_signaler.wait(lock): release m_signalMutex and block, atomically
WaitBlock(t) ==
    /\ At(t, {"wait"}, "w_wait")
    /\ sigMutex' = [sigMutex EXCEPT ![Top(t).cell] = NoThread]
    /\ waiting' = [waiting EXCEPT ![Top(t).cell] = @ \cup {t}]
    /\ stack' = SetTop(t, [Top(t) EXCEPT !.pc = "w_blocked"])
    /\ UNCHANGED <<cellVars, mutex, ctlVars, histVars>>

\* std::condition_variable::wait may return without any notification
WaitSpurious(t) ==
    /\ At(t, {"wait"}, "w_blocked")
    /\ t \in waiting[Top(t).cell]
    /\ waiting' = [waiting EXCEPT ![Top(t).cell] = @ \ {t}]
    /\ UNCHANGED <<cellVars, mutex, sigMutex, ctlVars, histVars, stack>>

\* The thread is off the condition variable (notify_all, or a spurious wakeup):
\* m_signaler.wait re-locks m_signalMutex and returns, the unique_lock is
\* destroyed and wait() returns.
WaitReturn(t) ==
    /\ At(t, {"wait"}, "w_blocked")
    /\ t \notin waiting[Top(t).cell]
    /\ sigMutex[Top(t).cell] = NoThread
    /\ waits' = waits \cup {WaitRecord(Top(t).cell, TRUE)}
    /\ stack' = Pop(t)
    /\ UNCHANGED <<cellVars, syncVars, ctlVars, reg, fired, appended, won>>

\* ------------------------------------------------------------------ specification
Next ==
    \E t \in Threads :
        \/ CallResolve(t)
        \/ CallReject(t)
        \/ SettleLock(t)
        \/ SettleCheck(t)
        \/ SettleStore(t)
        \/ SettleRunCallbacks(t)
        \/ SettleRunFinally(t)
        \/ SettleClear(t)
        \/ SettleNotify(t)
        \/ SettleUnlock(t)
        \/ CallThen(t)
        \/ ThenLock(t)
        \/ ThenBody(t)
        \/ ThenUnlock(t)
        \/ CallFailed(t)
        \/ FailedInline(t)
        \/ FailedTestOngoing(t)
        \/ FailedAppend(t)
        \/ CallFinally(t)
        \/ FinallyInline(t)
        \/ FinallyAppend(t)
        \/ RacingAppendAborts(t)
        \/ CallWait(t)
        \/ WaitLock(t)
        \/ WaitBlock(t)
        \/ WaitSpurious(t)
        \/ WaitReturn(t)

Spec == Init /\ [][Next]_vars

\* wait() reads m_status and writes only m_signalMutex and the condition
\* variable, which no other member function reads: the operations on cells
\* and callbacks, without the clients' wait() calls.
NextNoWait ==
    \E t \in Threads :
        \/ CallResolve(t)
        \/ CallReject(t)
        \/ SettleLock(t)
        \/ SettleCheck(t)
        \/ SettleStore(t)
        \/ SettleRunCallbacks(t)
        \/ SettleRunFinally(t)
        \/ SettleClear(t)
        \/ SettleNotify(t)
        \/ SettleUnlock(t)
        \/ CallThen(t)
        \/ ThenLock(t)
        \/ ThenBody(t)
        \/ ThenUnlock(t)
        \/ CallFailed(t)
        \/ FailedInline(t)
        \/ FailedTestOngoing(t)
        \/ FailedAppend(t)
        \/ CallFinally(t)
        \/ FinallyInline(t)
        \/ FinallyAppend(t)
        \/ RacingAppendAborts(t)

SpecNoWait == Init /\ [][NextNoWait]_vars

\* ------------------------------------------------------------------ Promise(Func&& executor)
\* What the executor of a promise the clients construct does with its two
\* callables (line 139): call resolveFn before it returns, or call rejectFn
\* before it returns.  (The executor of Root kept them for later.)
Executors == {"resolve", "reject"}
ExecutorCb(c) == [k |-> "Executor", h |-> 0, into |-> Null, nc |-> c]
Constructed == {i \in 1..Len(fired) : fired[i].cb.k = "Executor"}

\* The calls the executor makes on the new cell c before it returns:
\* shared->resolve(value) (line 134) or shared->reject(reason) (line 135).
ExecutorKeeps(e, c, a) == <<>>
ExecutorCalls(e, c, a) == <<Frame(e, "s_lock", c, a, 0)>>

\* A client constructs a promise: make_shared<SharedState>() (line 133) and
\* executor(resolveFn, rejectFn) (line 139), on the calling thread.
Construct(t) ==
    /\ Idle(t)
    /\ Cardinality(Constructed) < MaxNew
    /\ nSettle < MaxSettle
    /\ \E e \in Executors :
        LET c == nextCell
            a == IF e = "resolve" THEN Values[nSettle + 1] ELSE Errors[nSettle + 1]
        IN /\ fired' = Fire(ExecutorCb(c), a, e, c)
           /\ stack' = [stack EXCEPT ![t] =
                            <<Frame("Promise", "k_ret", c, a, 0)>> \o ExecutorCalls(e, c, a)]
    /\ nSettle' = nSettle + 1
    /\ nextCell' = nextCell + 1
    /\ UNCHANGED <<cellVars, syncVars, nextH, nWait, handles, settleable, aborted,
                   reg, appended, won, waits>>

\* The constructor returns (line 140): the caller has the handle, and whoever
\* holds a copy of the callables can call them.
ConstructReturn(t) ==
    /\ At(t, {"Promise"}, "k_ret")
    /\ handles' = handles \cup {Top(t).cell}
    /\ settleable' = settleable \cup {Top(t).cell}
    /\ stack' = Pop(t)
    /\ UNCHANGED <<cellVars, syncVars, nextCell, nextH, nSettle, nWait, aborted, histVars>>

\* The clients of SpecNoWait, also constructing promises of their own.
NextConstruct ==
    \/ NextNoWait
    \/ \E t \in Threads :
        \/ Construct(t)
        \/ ConstructReturn(t)

SpecConstruct == Init /\ [][NextConstruct]_vars

\* The same, with the clients also passing promise-returning handlers to then.
NextChain ==
    \/ NextNoWait
    \/ \E t \in Threads :
        \/ CallThenPromise(t)
        \/ ThenReadError(t)
        \/ ChainThen(t)
        \/ ChainFailed(t)
        \/ CallbackForward(t)

SpecChain == Init /\ [][NextChain]_vars

\* ------------------------------------------------------------------ properties
Quiescent == ~aborted /\ \A t \in Threads : stack[t] = <<>>

\* The positions of fired at which user handler h was invoked.
Invocations(h) == {i \in 1..Len(fired) : fired[i].cb.h = h}

\* Some frame of some thread satisfies P.
SomeFrame(P(_)) == \E t \in Threads : \E i \in 1..Len(stack[t]) : P(stack[t][i])

\* The callbacks the settling call of cell c ran out of one of its vectors.
KindsOf(which) ==
    CASE which = "res" -> {"ThenVoid", "ThenPromise"}
      [] which = "rej" -> {"FwdReject", "Failed"}
      [] OTHER -> {"Finally"}
InList(c, which, r) == r.how = "queued" /\ r.cell = c /\ r.cb.k \in KindsOf(which)
Ran(c, which) == SelectSeq(fired, LAMBDA r : InList(c, which, r))
Lists == {"res", "rej", "fin"}

\* The outcome a list is run on.
Matches(which, st) ==
    CASE which = "res" -> st = RESOLVED
      [] which = "rej" -> st = REJECTED
      [] OTHER -> st # ONGOING

\* C1: Single settlement.  Once a cell has left ONGOING and the call that
\* moved it has stored its payload, status, value and error are those of that
\* first call, whatever resolve/reject calls follow on any thread: the status
\* never returns to ONGOING and never flips, value and error never change.
C1_SingleSettlement ==
    \A c \in Cells :
        (status[c] # ONGOING /\ ~SomeFrame(LAMBDA g : g.cell = c /\ g.pc = "s_store"))
        => /\ won[c].op # "none"
           /\ won[c].op = "resolve" =>
                 status[c] = RESOLVED /\ value[c] = won[c].arg /\ error[c] = DefaultValue
           /\ won[c].op = "reject" =>
                 status[c] = REJECTED /\ error[c] = won[c].arg /\ value[c] = DefaultValue

\* Two calls were made on the root cell, with different payloads, and both returned.
C1_Witness ==
    /\ Quiescent
    /\ nSettle = 2
    /\ status[Root] # ONGOING
    /\ won[Root].arg \in {Values[1], Errors[1]}

\* C2: No missed wakeup.  No thread sits blocked in m_signaler.wait on a cell
\* that has been settled and whose settling call is past its notify_all: from
\* there no notification can come any more (later resolve/reject calls take
\* the else branch), so the wait() would never return.
WillNotify(c) ==
    SomeFrame(LAMBDA g : g.op \in SettleOps /\ g.cell = c /\ g.eff /\ g.pc # "s_unlock")
C2_NoMissedWakeup ==
    \A t \in Threads : \A c \in Cells :
        ~ /\ stack[t] # <<>>
          /\ Top(t).op = "wait"
          /\ Top(t).cell = c
          /\ Top(t).pc = "w_blocked"
          /\ t \in waiting[c]
          /\ status[c] # ONGOING
          /\ ~WillNotify(c)

\* C3: wait() blocks until settlement.  A wait() that found the cell ONGOING
\* returns only when the status has left ONGOING and the settling call has
\* run the queued callbacks.
C3_WaitBlocksUntilSettled ==
    \A w \in waits : w.pending => (w.st # ONGOING /\ ~w.draining)

\* C4: Chain forwarding.  For P.then(f).failed(h) on a non-empty handle P:
\* once all calls have returned and P is REJECTED with error E, f was never
\* invoked and h was invoked, once, with E.
C4_ChainForwarding ==
    Quiescent =>
        \A f, h \in Handlers :
            (/\ reg[f].kind = "then"
             /\ reg[f].on # Null
             /\ reg[h].kind = "failed"
             /\ reg[h].on = reg[f].ret
             /\ status[reg[f].on] = REJECTED)
            => /\ Invocations(f) = {}
               /\ Cardinality(Invocations(h)) = 1
               /\ \A i \in Invocations(h) : fired[i].arg = error[reg[f].on]

\* C5: Finally-after-outcome.  Once all calls have returned, every finally
\* handler attached to a cell that got settled has been invoked exactly once,
\* and after every resolve (reject) callback the settling call ran out of that
\* cell's list.
C5_FinallyAfterOutcome ==
    Quiescent =>
        \A g \in Handlers :
            (reg[g].kind = "finally" /\ reg[g].on # Null /\ status[reg[g].on] # ONGOING)
            => /\ Cardinality(Invocations(g)) = 1
               /\ \A i \in Invocations(g) : \A j \in 1..Len(fired) :
                     (/\ fired[j].cell = reg[g].on
                      /\ fired[j].how = "queued"
                      /\ fired[j].cb.k # "Finally")
                     => j < i

\* C6: Order preservation.  The callbacks a settling call has run out of a
\* list are, in order, the first callbacks pushed to that list; and once the
\* call has left its loops on a matching outcome, they include every callback
\* that was pushed while the cell was ONGOING.
C6_OrderPreservation ==
    \A c \in Cells : \A which \in Lists :
        LET ran == Ran(c, which)
            pushed == appended[c][which]
        IN /\ Len(ran) <= Len(pushed)
           /\ \A i \in 1..Len(ran) : ran[i].cb = pushed[i].cb
           /\ (Matches(which, status[c]) /\ ~Draining(c))
              => \A i \in 1..Len(pushed) : pushed[i].pending => i <= Len(ran)

\* Two callbacks pushed to one list of an ONGOING cell have both been run.
C6_Witness ==
    \E c \in Cells : \E which \in Lists :
        /\ Len(Ran(c, which)) >= 2
        /\ \A i \in 1..2 : appended[c][which][i].pending

C8_AtMostOnce ==
    \A h \in Handlers : Cardinality(Invocations(h)) <= 1

\* A handler run inline and a promise-returning handler run by the settling
\* call, after a second resolve/reject call on the same cell has returned.
C8_Witness ==
    /\ Quiescent
    /\ nSettle = 2
    /\ settleable = {Root}
    /\ \E i, j \in 1..Len(fired) :
          /\ fired[i].how = "inline" /\ fired[i].cb.h # 0
          /\ fired[j].how = "queued" /\ fired[j].cb.k = "ThenPromise"

\* C9: A redundant resolve/reject.  A step of a resolve/reject call that found
\* its cell already settled changes neither status, value, error nor any of
\* the three lists, invokes no callback, and the call goes on to return.
RedundantStep(t) ==
    /\ stack[t] # <<>>
    /\ Top(t).op \in SettleOps
    /\ Top(t).pc \in {"s_chk", "s_unlock"}
    /\ ~Top(t).eff
    /\ status[Top(t).cell] # ONGOING
    /\ stack'[t] # stack[t]
C9_RedundantSettleIsNoop ==
    [][\A t \in Threads :
          RedundantStep(t)
          => /\ UNCHANGED <<cellVars, fired, aborted>>
             /\ \/ /\ Top(t).pc = "s_chk"
                   /\ stack'[t] = [stack[t] EXCEPT ![Len(stack[t])].pc = "s_unlock"]
                \/ /\ Top(t).pc = "s_unlock"
                   /\ stack'[t] = SubSeq(stack[t], 1, Len(stack[t]) - 1)]_vars

\* A resolve/reject call found its cell settled and is about to return.
C9_Witness ==
    SomeFrame(LAMBDA g : g.op \in SettleOps /\ g.pc = "s_unlock" /\ ~g.eff)

\* C10: Inline vs. queued delivery.  Every invocation of a then handler,
\* whether by resolve out of the list or inline by then, passes the value
\* stored in the cell the handler was attached to, which is RESOLVED.
C10_InlineQueuedSameValue ==
    \A i \in 1..Len(fired) :
        fired[i].cb.k \in {"ThenVoid", "ThenPromise"}
        => /\ status[fired[i].cell] = RESOLVED
           /\ fired[i].arg = value[fired[i].cell]

\* On one cell, one then handler (returning a promise) was run by resolve and
\* another (returning nothing) inline.
C10_Witness ==
    \E i, j \in 1..Len(fired) :
        /\ fired[i].cb.k = "ThenPromise" /\ fired[i].how = "queued"
        /\ fired[j].cb.k = "ThenVoid" /\ fired[j].how = "inline"
        /\ fired[i].cb.h # 0 /\ fired[j].cb.h # 0
        /\ fired[i].cell = fired[j].cell
        /\ fired[i].arg = fired[j].arg

\* Thread t is inside a section of cell c that reads-and-writes the cell: a
\* resolve/reject between its lock and its return, a then between its lock and
\* its return, a failed or finally about to push_back.
InSection(t, c) ==
    \E i \in 1..Len(stack[t]) :
        LET g == stack[t][i]
        IN /\ g.cell = c
           /\ \/ g.op \in SettleOps /\ g.pc # "s_lock"
              \/ g.op = "then" /\ g.pc \in {"t_body", "t_unlock"}
              \/ g.op = "failed" /\ g.pc = "f_app"
              \/ g.op = "finally" /\ g.pc = "y_app"

\* C11: Mutual exclusion on the cell.  A thread inside a resolve, reject or
\* callback-append section of a cell holds that cell's m_fulfilledMutex, so no
\* two threads are inside such sections of one cell at the same time.
C11_MutualExclusion ==
    \A c \in Cells :
        /\ \A t \in Threads : InSection(t, c) => mutex[c] = t
        /\ \A t, u \in Threads : (InSection(t, c) /\ InSection(u, c)) => t = u

\* The call that passed user handler h to then/failed/finally has returned.
CallReturned(h) == reg[h].kind # "none" /\ ~SomeFrame(LAMBDA g : g.h = h)

ThenKinds == {"then", "thenPromise"}

\* C12: then on an already Fulfilled cell.  Once a then that found its cell
\* RESOLVED has returned, its handler has been invoked exactly once, inline,
\* with the value stored in the cell; the handle returned is the same cell for
\* a handler returning nothing and the handler's promise otherwise; and a
\* failed handler attached to a returned promise that the handler made with
\* Reject(X) is invoked, once, with X.
C12_ThenOnFulfilled ==
    \A f \in Handlers :
        (reg[f].kind \in ThenKinds /\ reg[f].seen = RESOLVED /\ CallReturned(f))
        => /\ Cardinality(Invocations(f)) = 1
           /\ \A i \in Invocations(f) :
                 /\ fired[i].how = "inline"
                 /\ fired[i].cell = reg[f].on
                 /\ fired[i].arg = value[reg[f].on]
           /\ reg[f].kind = "then" => reg[f].ret = reg[f].on
           /\ reg[f].kind = "thenPromise" => (reg[f].q # Null /\ reg[f].ret = reg[f].q)
           /\ \A h \in Handlers :
                 (/\ reg[f].kind = "thenPromise"
                  /\ reg[h].kind = "failed"
                  /\ reg[h].on = reg[f].ret
                  /\ won[reg[f].ret] = [op |-> "reject", arg |-> Thrown[f]]
                  /\ CallReturned(h))
                 => /\ Cardinality(Invocations(h)) = 1
                    /\ \A i \in Invocations(h) : fired[i].arg = Thrown[f]

\* then(f).failed(h) on a cell found RESOLVED, f returning Reject(X): both
\* calls have returned.
C12_Witness ==
    \E f, h \in Handlers :
        /\ reg[f].kind = "thenPromise" /\ reg[f].seen = RESOLVED /\ CallReturned(f)
        /\ reg[h].kind = "failed" /\ reg[h].on = reg[f].ret /\ CallReturned(h)
        /\ won[reg[f].ret] = [op |-> "reject", arg |-> Thrown[f]]

\* The then call that was passed handler f found its cell ONGOING under the
\* lock (line 202): it made the cell it returns and stored the two callbacks.
Queued(f) ==
    /\ reg[f].kind \in ThenKinds
    /\ reg[f].on \in Cells
    /\ reg[f].ret \in Cells
    /\ \E i \in 1..Len(appended[reg[f].on].rej) :
          appended[reg[f].on].rej[i].cb = FwdRejectCb(reg[f].ret)

\* No resolve/reject call that took effect on cell c is still running.
Settled(c) ==
    /\ status[c] # ONGOING
    /\ ~SomeFrame(LAMBDA g : g.op \in SettleOps /\ g.cell = c /\ g.eff)

\* C13: then with a handler returning nothing, on a cell that is ONGOING under
\* the lock.  The cell N it returns is new and ONGOING when then returns; N
\* leaves ONGOING only inside the settling call of the parent P; N is RESOLVED
\* only if P is RESOLVED, with P's value, after f was invoked with that value;
\* N is REJECTED only if P is REJECTED, with P's error, f never invoked; and
\* when the settling call of P has returned N is settled like P and f has run
\* exactly once (P RESOLVED) or not at all (P REJECTED).
C13_ThenVoidOnPending ==
    /\ \A t \in Threads : \A i \in 1..Len(stack[t]) :
          LET g == stack[t][i]
          IN (g.op = "then" /\ g.pc = "t_unlock" /\ g.h # 0 /\ ~g.prom /\ g.ret # g.cell
              /\ status[g.cell] = ONGOING)
             => status[g.ret] = ONGOING /\ won[g.ret] = NoWon
    /\ \A f \in Handlers :
          (reg[f].kind = "then" /\ Queued(f))
          => LET P == reg[f].on
                 N == reg[f].ret
             IN /\ N # P
                /\ status[P] = ONGOING => (status[N] = ONGOING /\ Invocations(f) = {})
                /\ status[N] = RESOLVED
                   => /\ status[P] = RESOLVED
                      /\ won[N] = won[P]
                      /\ Cardinality(Invocations(f)) = 1
                      /\ \A j \in Invocations(f) :
                            fired[j].arg = won[P].arg /\ fired[j].how = "queued"
                /\ status[N] = REJECTED
                   => /\ status[P] = REJECTED
                      /\ won[N] = won[P]
                      /\ Invocations(f) = {}
                /\ Settled(P)
                   => /\ Settled(N)
                      /\ status[N] = status[P]
                      /\ value[N] = value[P]
                      /\ error[N] = error[P]
                      /\ Cardinality(Invocations(f)) = (IF status[P] = RESOLVED THEN 1 ELSE 0)

\* Two then calls queued, one on the cell of the executor and one on the cell
\* the first returned; the executor's cell was resolved and all calls have
\* returned.
C13_Witness ==
    /\ Quiescent
    /\ status[Root] = RESOLVED
    /\ \A f \in Handlers : reg[f].kind = "then" /\ Queued(f)
    /\ \E f, g \in Handlers : reg[f].on = Root /\ reg[g].on = reg[f].ret

\* C14: then with a promise-returning handler, on a cell that is ONGOING under
\* the lock.  It returns a new cell N; once the handler has returned promise Q
\* and all calls have returned, N is RESOLVED with v if Q is RESOLVED with v,
\* REJECTED with e if Q is REJECTED with e, and ONGOING if Q is ONGOING.
C14_ThenPromiseOnPending ==
    Quiescent =>
        \A f \in Handlers :
            (reg[f].kind = "thenPromise" /\ Queued(f) /\ reg[f].q # Null)
            => LET N == reg[f].ret
                   Q == reg[f].q
               IN /\ status[N] = status[Q]
                  /\ value[N] = value[Q]
                  /\ error[N] = error[Q]

\* The first test of the call found no cell, or a REJECTED cell.
SawEmptyOrRejected(f) == reg[f].seen \in {"none", REJECTED}

\* C15: then on an empty or already REJECTED handle.  The handler of a then
\* whose test of line 173 found no cell or a REJECTED cell is never invoked,
\* and when the handler returns nothing the handle returned is the one then
\* was called on.
C15_ThenOnEmptyOrRejected ==
    \A f \in Handlers :
        (reg[f].kind \in ThenKinds /\ SawEmptyOrRejected(f))
        => /\ Invocations(f) = {}
           /\ \A c \in Cells : \A which \in Lists :
                 \A i \in 1..Len(appended[c][which]) : appended[c][which][i].cb.h # f
           /\ reg[f].kind = "then" => reg[f].ret = reg[f].on

\* then was called on the empty handle and on a REJECTED cell, with handlers
\* returning nothing, and every call has returned.
C15_Witness ==
    /\ Quiescent
    /\ \E f, g \in Handlers :
          /\ reg[f].kind = "then" /\ reg[f].seen = "none"
          /\ reg[g].kind = "then" /\ reg[g].seen = REJECTED

\* C16: then with a promise-returning handler on an empty or already REJECTED
\* handle.  Once the call has returned, the handle it returned has a cell that
\* is REJECTED: with "Non-initialized promise" if the handle was empty, with
\* the parent's error if the parent was REJECTED; whether or not the handler's
\* promise type is the parent's.
C16_ThenPromiseOnEmptyOrRejected ==
    \A f \in Handlers :
        (reg[f].kind = "thenPromise" /\ SawEmptyOrRejected(f) /\ CallReturned(f))
        => /\ reg[f].ret \in Cells
           /\ status[reg[f].ret] = REJECTED
           /\ reg[f].seen = "none" => won[reg[f].ret].arg = NonInitialized
           /\ reg[f].seen = REJECTED => won[reg[f].ret].arg = won[reg[f].on].arg

\* C17: failed on a non-empty handle.  failed(h) returns the handle it was
\* called on; h is invoked only when the cell is REJECTED and only with the
\* error the cell was rejected with; h is never invoked when the cell is
\* RESOLVED; and h is invoked at most once.
C17_FailedOnlyOnRejection ==
    \A h \in Handlers :
        (reg[h].kind = "failed" /\ reg[h].on # Null)
        => /\ reg[h].ret = reg[h].on
           /\ Cardinality(Invocations(h)) <= 1
           /\ status[reg[h].on] = RESOLVED => Invocations(h) = {}
           /\ \A i \in Invocations(h) :
                 /\ fired[i].cell = reg[h].on
                 /\ status[reg[h].on] = REJECTED
                 /\ fired[i].arg = won[reg[h].on].arg

\* A step in which a client calls failed or finally on the empty handle, or
\* wait on the empty handle.
EmptyHandleCall ==
    \/ \E h \in Handlers :
          /\ reg[h].kind = "none"
          /\ reg'[h].kind \in {"failed", "finally"}
          /\ reg'[h].on = Null
    \/ \E w \in waits' \ waits : w.cell = Null

\* What holds of the calls made on the empty handle so far.
EmptyHandleCalls ==
    /\ \A h \in Handlers :
          (reg[h].on = Null /\ reg[h].kind = "failed")
          => /\ Cardinality(Invocations(h)) = 1
             /\ \A i \in Invocations(h) :
                   fired[i].arg = Moved /\ fired[i].how = "inline" /\ fired[i].cell = Null
    /\ \A h \in Handlers :
          (reg[h].on = Null /\ reg[h].kind = "finally") => Invocations(h) = {}
    /\ \A w \in waits : w.cell = Null => ~w.pending
    /\ ~SomeFrame(LAMBDA g : g.cell = Null)

\* C18: Empty-handle use.  failed(h) on the empty handle invokes h once, at
\* once, with "Promise has been moved"; finally(g) never invokes g; wait()
\* returns without blocking; and such a call makes no cell, changes no cell,
\* takes no mutex and leaves nothing running.
C18_EmptyHandleUse ==
    /\ []EmptyHandleCalls
    /\ [][EmptyHandleCall => UNCHANGED <<cellVars, syncVars, nextCell, stack, handles>>]_vars

\* failed, finally and wait have all been called on the empty handle.
C18_Witness ==
    /\ \E h, g \in Handlers :
          /\ reg[h].on = Null /\ reg[h].kind = "failed"
          /\ reg[g].on = Null /\ reg[g].kind = "finally"
    /\ \E w \in waits : w.cell = Null

\* The handler of every returned call of kind on cell c ran once, inside the
\* call, with a, and the call returned the handle it was made on.
RanInlineWith(kind, c, a) ==
    \A h \in Handlers :
        (reg[h].kind = kind /\ reg[h].on = c /\ CallReturned(h))
        => /\ reg[h].ret = c
           /\ Cardinality(Invocations(h)) = 1
           /\ \A i \in Invocations(h) :
                 fired[i].how = "inline" /\ fired[i].arg = a /\ fired[i].cell = c

\* The constructor that made cell c is still running.
Constructing(c) == SomeFrame(LAMBDA g : g.op = "Promise" /\ g.cell = c)

\* C19: Promise(executor) invokes the executor once, before it returns, with
\* callables bound to the new cell.  If the executor calls resolve(v) before
\* it returns, the cell is RESOLVED with v when the constructor returns and a
\* then attached afterwards runs its handler inline with v; the same with
\* reject(e), REJECTED and failed.
C19_ConstructorRunsExecutor ==
    /\ \A c \in Cells : Constructing(c) => \E i \in Constructed : fired[i].cell = c
    /\ \A i \in Constructed :
          LET c == fired[i].cell
              e == fired[i].how
              a == fired[i].arg
          IN /\ \A j \in Constructed : fired[j].cell = c => j = i
             /\ Constructing(c) \/ c \in handles
             /\ (c \in handles /\ e = "resolve")
                => /\ status[c] = RESOLVED
                   /\ value[c] = a
                   /\ RanInlineWith("then", c, a)
             /\ (c \in handles /\ e = "reject")
                => /\ status[c] = REJECTED
                   /\ error[c] = a
                   /\ RanInlineWith("failed", c, a)

\* A promise made by an executor that calls resolve before it returns, with a
\* then and a failed attached afterwards.
C19_Witness ==
    \E i \in Constructed :
        LET c == fired[i].cell
        IN /\ c \in handles
           /\ fired[i].how = "resolve"
           /\ \E h, g \in Handlers :
                 /\ reg[h].kind = "then" /\ reg[h].on = c /\ CallReturned(h)
                 /\ reg[g].kind = "failed" /\ reg[g].on = c /\ CallReturned(g)


\* The callbacks wrapping a user handler that were pushed to list which of
\* cell c while its status was ONGOING.
PushedWhilePending(c, which) ==
    {i \in 1..Len(appended[c][which]) :
        appended[c][which][i].pending /\ appended[c][which][i].cb.h # 0}

\* A step in which a settling call runs a callback out of a list is a step of
\* a thread that is inside the resolve/reject that moved that cell's status.
QueuedRunsInSettlingCall ==
    (Len(fired') > Len(fired) /\ fired'[Len(fired')].how = "queued")
    => \E t \in Threads :
          /\ stack[t] # <<>>
          /\ stack'[t] # stack[t]
          /\ Top(t).op \in SettleOps
          /\ Top(t).cell = fired'[Len(fired')].cell
          /\ Top(t).eff
          /\ Top(t).pc \in {"s_cbs", "s_fin"}

\* Where the handlers pushed while the cell was ONGOING stand: not invoked
\* while the status is ONGOING, only ever invoked out of the list, and invoked
\* once the call that settled the cell with the matching outcome is past its
\* loops.
PendingHandlers ==
    \A c \in Cells : \A which \in Lists : \A i \in PushedWhilePending(c, which) :
        LET h == appended[c][which][i].cb.h
        IN /\ status[c] = ONGOING => Invocations(h) = {}
           /\ \A j \in Invocations(h) : fired[j].how = "queued" /\ fired[j].cell = c
           /\ (Matches(which, status[c]) /\ ~Draining(c)) => Invocations(h) # {}

\* C20: A handler attached with then, failed or finally while the cell is
\* Pending is not invoked at attach time nor while the status is Pending; it
\* is invoked by the resolve/reject call that settles the cell, on that call's
\* thread and before that call returns; while neither is called the cell
\* stays Pending and the handler does not run.
C20_PendingHandlerRunsAtSettle ==
    /\ []PendingHandlers
    /\ [][QueuedRunsInSettlingCall]_vars

\* Two handlers were pushed while Root was ONGOING, one of them a finally, and
\* the call that settled Root has run both and returned.
C20_Witness ==
    /\ Quiescent
    /\ status[Root] # ONGOING
    /\ PushedWhilePending(Root, "fin") # {}
    /\ \E which \in {"res", "rej"} :
          /\ Matches(which, status[Root])
          /\ PushedWhilePending(Root, which) # {}
    /\ \A h \in Handlers : reg[h].on = Root /\ Invocations(h) # {}

\* Some resolve/reject call on cell c has started and not returned.
Settling(c) == SomeFrame(LAMBDA g : g.op \in SettleOps /\ g.cell = c)

\* C22: Callback lists are drained and cleared at settlement.  Whenever a
\* cell is RESOLVED or REJECTED and no resolve/reject call is in progress on
\* it, its resolve, reject and finally lists are all empty.
C22_ListsClearedAtSettlement ==
    \A c \in Cells :
        (status[c] # ONGOING /\ ~Settling(c))
        => /\ resolveCbs[c] = <<>>
           /\ rejectCbs[c] = <<>>
           /\ finallyCbs[c] = <<>>

\* Frame g is a then that went past both branches to the statement of
\* lines 233-238 and is about to return the promise made there.
FellThrough(g) ==
    /\ g.op = "then"
    /\ g.pc = "t_unlock"
    /\ g.cell # Null
    /\ g.ret \in Cells
    /\ g.ret # g.cell
    /\ won[g.ret] = [op |-> "reject", arg |-> NonInitialized]

\* C23: The fall-through return of then is unreachable for a non-empty
\* handle: no then on a cell ever gets to return the promise rejected with
\* "Non-initialized promise" of lines 233-238.
C23_FallThroughUnreachable == ~SomeFrame(FellThrough)

\* C24: then is atomic with respect to resolve.  For a then(f) on a cell, f
\* returning nothing, and a resolve(v) that settles the cell, whatever the
\* interleaving: f is never invoked twice, and once all calls have returned f
\* has been invoked exactly once, with v, by then or by resolve, and the
\* handle then returned is RESOLVED with v.
C24_ThenAtomicWithResolve ==
    \A f \in Handlers :
        (reg[f].kind = "then" /\ reg[f].on # Null /\ status[reg[f].on] = RESOLVED)
        => LET c == reg[f].on
           IN /\ Cardinality(Invocations(f)) <= 1
              /\ \A i \in Invocations(f) :
                    /\ fired[i].cell = c
                    /\ fired[i].arg = won[c].arg
                    /\ fired[i].how \in {"inline", "queued"}
              /\ Quiescent
                 => /\ Cardinality(Invocations(f)) = 1
                    /\ reg[f].ret \in Cells
                    /\ status[reg[f].ret] = RESOLVED
                    /\ value[reg[f].ret] = won[c].arg

\* Two then calls on Root both read ONGOING at their first test; a resolve
\* got in before one of them took the lock, which ran its handler itself,
\* and after the other, whose handler the resolve ran; all calls have returned.
C24_Witness ==
    /\ Quiescent
    /\ status[Root] = RESOLVED
    /\ \E f, g \in Handlers :
          /\ reg[f].kind = "then" /\ reg[f].on = Root /\ reg[f].seen = ONGOING
          /\ reg[g].kind = "then" /\ reg[g].on = Root /\ reg[g].seen = ONGOING
          /\ \E i \in Invocations(f) : fired[i].how = "inline"
          /\ \E i \in Invocations(g) : fired[i].how = "queued"

\* failed(h) stored h in the reject list of its cell while that cell was
\* ONGOING.
FailedQueued(h) ==
    /\ reg[h].kind = "failed"
    /\ reg[h].on \in Cells
    /\ \E i \in 1..Len(appended[reg[h].on].rej) :
          /\ appended[reg[h].on].rej[i].cb = FailedCb(h)
          /\ appended[reg[h].on].rej[i].pending

\* Link f of a chain is rejected with error e: the cell then(f) was called on
\* is REJECTED with e, or the promise f returned is.
LinkRejected(f, e) ==
    \/ status[reg[f].on] = REJECTED /\ won[reg[f].on].arg = e
    \/ /\ reg[f].kind = "thenPromise"
       /\ reg[f].q # Null
       /\ status[reg[f].q] = REJECTED
       /\ won[reg[f].q].arg = e

\* The cell c downstream of a rejected link is REJECTED with e.
RejectedWith(c, e) == status[c] = REJECTED /\ error[c] = e

\* C21: Rejection propagation through a chain P.then(f1)...then(fk).failed(h)
\* built while every cell of it was ONGOING.  Once all calls have returned,
\* if link f is rejected with E, the cell then(f) returned is REJECTED with E,
\* a handler g attached to it with then was never invoked and its cell is
\* REJECTED with E, and a handler h attached to it with failed was invoked
\* once, with E.
C21_RejectionPropagation ==
    Quiescent =>
        \A f \in Handlers : \A e \in {won[c].arg : c \in Cells} :
            (Queued(f) /\ LinkRejected(f, e))
            => /\ RejectedWith(reg[f].ret, e)
               /\ \A g \in Handlers :
                     (Queued(g) /\ reg[g].on = reg[f].ret)
                     => Invocations(g) = {} /\ RejectedWith(reg[g].ret, e)
               /\ \A h \in Handlers :
                     (FailedQueued(h) /\ reg[h].on = reg[f].ret)
                     => /\ Cardinality(Invocations(h)) = 1
                        /\ \A i \in Invocations(h) : fired[i].arg = e

\* Thread t is at a lock_guard of m_fulfilledMutex (line 43, 62 or 193) that
\* it cannot pass: the mutex is held.
BlockedOnMutex(t) ==
    /\ stack[t] # <<>>
    /\ Top(t).pc \in {"s_lock", "t_lock"}
    /\ mutex[Top(t).cell] # NoThread

\* The cells whose m_fulfilledMutex thread t holds, in the order it took them.
HeldBy(t) ==
    LET holds == SelectSeq(stack[t], LAMBDA g :
                     \/ g.op \in SettleOps /\ g.pc # "s_lock"
                     \/ g.op = "then" /\ g.pc \in {"t_body", "t_unlock"})
    IN [i \in 1..Len(holds) |-> holds[i].cell]

\* C25: Deadlock freedom of chained settlement.  A thread never waits for a
\* mutex it holds itself, never holds one mutex twice, and a thread blocked on
\* a cell's mutex waits for a thread that is not blocked: no state has every
\* thread blocked on a mutex.
C25_DeadlockFreedom ==
    /\ \A t \in Threads :
          BlockedOnMutex(t)
          => /\ mutex[Top(t).cell] # t
             /\ ~BlockedOnMutex(mutex[Top(t).cell])
    /\ \A t \in Threads : \A i, j \in 1..Len(HeldBy(t)) :
          HeldBy(t)[i] = HeldBy(t)[j] => i = j
    /\ \E t \in Threads : ~BlockedOnMutex(t)

\* A thread running a callback under the lock of a parent cell and of the
\* promise the handler returned is blocked on the derived cell's mutex, which
\* another thread holds.
C25_Witness ==
    \E t, u \in Threads :
        /\ t # u
        /\ BlockedOnMutex(t)
        /\ mutex[Top(t).cell] = u
        /\ Len(HeldBy(t)) >= 2

====
